---- MODULE Spec2Model ----
(***************************************************************************)
(* Model of the Tool Shed tools API controller                             *)
(* (lib/galaxy/webapps/tool_shed/api/tools.py): ToolsController.index and  *)
(* ToolsController._search.                                                *)
(*                                                                         *)
(* Strings the code inspects character by character (q, page) are          *)
(* sequences of one-character strings.  An optional value is a sequence of *)
(* length 0 or 1.  Floats are counted in tenths (1.2 is 12).               *)
(***************************************************************************)
EXTENDS Integers, Sequences, FiniteSets, TLC

VARIABLES conf, kwd, pc, page, search_results, response, raised, engine_calls, engine_outcome

vars == <<conf, kwd, pc, page, search_results, response, raised, engine_calls, engine_outcome>>

(* ------------------------------ bounds -------------------------------- *)

MaxQLen == 4

MaxPageLen == 2

(* ------------------------------ inputs -------------------------------- *)

Whitespace == {" "}

DigitValue == [c \in {"0", "1", "2", "3", "4", "5", "6", "7", "8", "9"} |->
                  CASE c = "0" -> 0 [] c = "1" -> 1 [] c = "2" -> 2 [] c = "3" -> 3
                    [] c = "4" -> 4 [] c = "5" -> 5 [] c = "6" -> 6 [] c = "7" -> 7
                    [] c = "8" -> 8 [] c = "9" -> 9]

Digits == DOMAIN DigitValue

QChars == {" ", "a"}

PageChars == {"-", "0", "1", "x"}

RECURSIVE StringsUpTo(_, _)
StringsUpTo(chars, n) ==
    IF n = 0 THEN {<<>>}
    ELSE LET shorter == StringsUpTo(chars, n - 1)
         IN  shorter \cup {Append(s, c) : s \in shorter, c \in chars}

QValues == StringsUpTo(QChars, MaxQLen)

PageValues == StringsUpTo(PageChars, MaxPageLen)

\* The keyword arguments of one GET /api/tools request: "q" and "page" are
\* each present or absent.
Requests ==
    {<<>>}
    \cup {[q |-> s] : s \in QValues}
    \cup {[page |-> p] : p \in PageValues}
    \cup {[q |-> s, page |-> p] : s \in QValues, p \in PageValues}

None == "<None>"

Unset == "<unset>"

BoostKeys == {"tool_name_boost", "tool_description_boost",
              "tool_help_boost", "tool_repo_owner_username_boost"}

\* What the configuration file may say for a boost: nothing, a number, or
\* (for the first boost) something float() cannot read
BoostSettings(k) ==
    IF k = "tool_name_boost" THEN {Unset, "2.5", "abc"} ELSE {Unset, "2.5"}

IndexDirs == {None, "", "/idx"}

Configs == [toolshed_search_on : BOOLEAN,
            whoosh_index_dir   : IndexDirs,
            settings           : {f \in [BoostKeys -> {Unset, "2.5", "abc"}] :
                                     \A k \in BoostKeys : f[k] \in BoostSettings(k)}]

Callbacks == {"callback", "cb"}

Hostname == "http://localhost:9009/"

(* ------------------------ the search engine --------------------------- *)

HitA == [name |-> "A", score |-> 5]

HitB == [name |-> "B", score |-> 9]

EngineResults == [hits          : {<<HitB, HitA>>, <<HitA, HitB>>},
                  page          : {1, 7},
                  total_results : {2, 40}]

EngineErrors == {"EmptyIndexError", "IOError"}

NoResults == [hits |-> <<>>, page |-> 0, total_results |-> 0]

\* What one call of the engine does: it returns a result set or it raises.
EngineOutcomes ==
    {[ok |-> TRUE, results |-> r, exc |-> ""] : r \in EngineResults}
    \cup {[ok |-> FALSE, results |-> NoResults, exc |-> e] : e \in EngineErrors}

\* ToolSearch.search( trans, search_term, page, boosts )
tool_search_search(search_term, pg, boosts, eng) == eng

(* --------------------------- pure helpers ----------------------------- *)

\* dict.get( key, default )
Get(d, key, default) == IF key \in DOMAIN d THEN d[key] ELSE default

\* Variant: only None counts as "no value"
Truthy_NotNone(x) == x # None

\* Python truth value of a configuration value (None and "" are false)
Truthy(x) == x \notin {None, ""}

\* Python truth value of a request string (only the empty string is false)
NonEmpty(s) == Len(s) > 0

RECURSIVE lstrip(_)
lstrip(s) ==
    IF s = <<>> THEN s
    ELSE IF Head(s) \in Whitespace THEN lstrip(Tail(s)) ELSE s

RECURSIVE rstrip(_)
rstrip(s) ==
    IF s = <<>> THEN s
    ELSE IF s[Len(s)] \in Whitespace THEN rstrip(SubSeq(s, 1, Len(s) - 1)) ELSE s

\* str.strip()
strip(s) == rstrip(lstrip(s))

RECURSIVE DigitsValue(_)
DigitsValue(s) ==
    IF s = <<>> THEN 0
    ELSE 10 * DigitsValue(SubSeq(s, 1, Len(s) - 1)) + DigitValue[s[Len(s)]]

\* The digits of an integer literal once blanks and the sign are removed
IntBody(s) ==
    LET t == strip(s)
    IN  IF t # <<>> /\ Head(t) \in {"-", "+"} THEN Tail(t) ELSE t

\* int( page ) raises ValueError
IntRaises(s) ==
    \/ IntBody(s) = <<>>
    \/ \E i \in 1..Len(IntBody(s)) : IntBody(s)[i] \notin Digits

\* Variant: the sign is dropped
int_Unsigned(s) == DigitsValue(IntBody(s))

\* int( page ) when it does not raise
int(s) ==
    LET t == strip(s)
        v == DigitsValue(IntBody(s))
    IN  IF t # <<>> /\ Head(t) = "-" THEN 0 - v ELSE v

\* The numeric strings a configuration file may hold, in tenths
FloatLiterals == [lit \in {"2.5", "0"} |-> IF lit = "2.5" THEN 25 ELSE 0]

\* conf.get( key, default ): the configured string, or the float default
conf_get(cf, key, default) ==
    IF cf.settings[key] = Unset
    THEN [isfloat |-> TRUE, str |-> "", val |-> default]
    ELSE [isfloat |-> FALSE, str |-> cf.settings[key], val |-> 0]

\* float( x ) raises ValueError
FloatRaises(x) == ~x.isfloat /\ x.str \notin DOMAIN FloatLiterals

\* float( x ) when it does not raise
float(x) == IF x.isfloat THEN x.val ELSE FloatLiterals[x.str]

tool_name_boost_default == 12

tool_description_boost_default == 6

tool_help_boost_default == 4

tool_repo_owner_username_boost_default == 3

MinTermLen == 3

DefaultPage == 1

\* Variant: the description and help defaults are exchanged
BoostLookups_Swapped(cf) ==
    <<conf_get(cf, "tool_name_boost", tool_name_boost_default),
      conf_get(cf, "tool_description_boost", tool_help_boost_default),
      conf_get(cf, "tool_help_boost", tool_description_boost_default),
      conf_get(cf, "tool_repo_owner_username_boost", tool_repo_owner_username_boost_default)>>

\* The four conf.get( ..., default ) lookups, in the order of the namedtuple
BoostLookups(cf) ==
    <<conf_get(cf, "tool_name_boost", tool_name_boost_default),
      conf_get(cf, "tool_description_boost", tool_description_boost_default),
      conf_get(cf, "tool_help_boost", tool_help_boost_default),
      conf_get(cf, "tool_repo_owner_username_boost", tool_repo_owner_username_boost_default)>>

\* Boosts( float(...), float(...), float(...), float(...) )
Boosts(cf) ==
    LET l == BoostLookups(cf)
    IN  [tool_name_boost                |-> float(l[1]),
         tool_description_boost         |-> float(l[2]),
         tool_help_boost                |-> float(l[3]),
         tool_repo_owner_username_boost |-> float(l[4])]

BoostsRaise(cf) == \E i \in 1..4 : FloatRaises(BoostLookups(cf)[i])

(* ------------------------------ _search ------------------------------- *)

MsgSearchOff == "Searching the TS through the API is turned off for this instance."

MsgNoIndexDir == "There is no directory for the search index specified. Please contact the administrator."

MsgShortTerm == "The search term has to be at least 3 characters long."

MsgNoListing == "Listing of all the tools is not implemented. Provide parameter \"q\" to search instead."

MsgBadPage == "The \"page\" requested has to be an integer."

\* An exception leaving a function before anything else happened in it
Raise(kind, msg) ==
    [exc |-> kind, msg |-> msg, calls |-> <<>>, results |-> <<>>]

\* Variant: the page of the result set is overwritten with the page asked for
EngineCall_Repaginate(search_term, pg, boosts, eng) ==
    LET call == [search_term |-> search_term, page |-> pg, boosts |-> boosts]
        out  == tool_search_search(search_term, pg, boosts, eng)
    IN  IF out.ok
        THEN [exc |-> "", msg |-> "", calls |-> <<call>>,
              results |-> <<("hostname" :> Hostname) @@ ("page" :> pg) @@ out.results>>]
        ELSE [exc |-> out.exc, msg |-> "", calls |-> <<call>>, results |-> <<>>]

\* Variant: an engine failure is caught and an empty result set returned
EngineCall_Swallow(search_term, pg, boosts, eng) ==
    LET call == [search_term |-> search_term, page |-> pg, boosts |-> boosts]
        out  == tool_search_search(search_term, pg, boosts, eng)
    IN  IF out.ok
        THEN [exc |-> "", msg |-> "", calls |-> <<call>>,
              results |-> <<("hostname" :> Hostname) @@ out.results>>]
        ELSE [exc |-> "", msg |-> "", calls |-> <<call>>,
              results |-> <<("hostname" :> Hostname) @@ NoResults>>]

\* The call made to ToolSearch.search and what came of it
EngineCall(search_term, pg, boosts, eng) ==
    LET call == [search_term |-> search_term, page |-> pg, boosts |-> boosts]
        out  == tool_search_search(search_term, pg, boosts, eng)
    IN  IF out.ok
        THEN [exc |-> "", msg |-> "", calls |-> <<call>>,
              results |-> <<("hostname" :> Hostname) @@ out.results>>]
        ELSE [exc |-> out.exc, msg |-> "", calls |-> <<call>>, results |-> <<>>]

\* Variant: off by one
TooShort_OffByOne(search_term) == Len(search_term) <= MinTermLen

\* len( search_term ) < 3
TooShort(search_term) == Len(search_term) < MinTermLen

\* Variant: the term length is checked before the configuration
_search_LengthFirst(q, pg, cf, eng) ==
    LET search_term == strip(q)
    IN  IF TooShort(search_term)
        THEN Raise("RequestParameterInvalidException", MsgShortTerm)
        ELSE IF ~cf.toolshed_search_on
        THEN Raise("ConfigDoesNotAllowException", MsgSearchOff)
        ELSE IF ~Truthy(cf.whoosh_index_dir)
        THEN Raise("ConfigDoesNotAllowException", MsgNoIndexDir)
        ELSE IF BoostsRaise(cf)
        THEN Raise("ValueError", "")
        ELSE EngineCall(search_term, pg, Boosts(cf), eng)

\* Variant: the index directory is checked before the search switch
_search_DirFirst(q, pg, cf, eng) ==
    IF ~Truthy(cf.whoosh_index_dir)
    THEN Raise("ConfigDoesNotAllowException", MsgNoIndexDir)
    ELSE IF ~cf.toolshed_search_on
    THEN Raise("ConfigDoesNotAllowException", MsgSearchOff)
    ELSE LET search_term == strip(q)
         IN  IF TooShort(search_term)
             THEN Raise("RequestParameterInvalidException", MsgShortTerm)
             ELSE IF BoostsRaise(cf)
             THEN Raise("ValueError", "")
             ELSE EngineCall(search_term, pg, Boosts(cf), eng)

\* Variant: the engine is queried before the term length is checked
_search_EngineFirst(q, pg, cf, eng) ==
    IF ~cf.toolshed_search_on
    THEN Raise("ConfigDoesNotAllowException", MsgSearchOff)
    ELSE IF ~Truthy(cf.whoosh_index_dir)
    THEN Raise("ConfigDoesNotAllowException", MsgNoIndexDir)
    ELSE IF BoostsRaise(cf)
    THEN Raise("ValueError", "")
    ELSE LET search_term == strip(q)
             e == EngineCall(search_term, pg, Boosts(cf), eng)
         IN  IF e.exc # "" THEN e
             ELSE IF TooShort(search_term)
             THEN [exc |-> "RequestParameterInvalidException", msg |-> MsgShortTerm,
                   calls |-> e.calls, results |-> <<>>]
             ELSE e

\* ToolsController._search( trans, q, page )
_search(q, pg, cf, eng) ==
    IF ~cf.toolshed_search_on
    THEN Raise("ConfigDoesNotAllowException", MsgSearchOff)
    ELSE IF ~Truthy(cf.whoosh_index_dir)
    THEN Raise("ConfigDoesNotAllowException", MsgNoIndexDir)
    ELSE LET search_term == strip(q)
         IN  IF TooShort(search_term)
             THEN Raise("RequestParameterInvalidException", MsgShortTerm)
             ELSE IF BoostsRaise(cf)
             THEN Raise("ValueError", "")
             ELSE EngineCall(search_term, pg, Boosts(cf), eng)

(* ------------------------------- index -------------------------------- *)

\* json.dumps( search_results ): the members of the JSON object, by key
json_dumps(d) ==
    <<<<"hits", d.hits>>, <<"hostname", d.hostname>>,
      <<"page", d.page>>, <<"total_results", d.total_results>>>>

\* The body returned to the caller: plain JSON, or '%s(%s);' around it
Body(d, return_jsonp, callback) ==
    IF return_jsonp
    THEN [head |-> <<callback, "(">>, json |-> json_dumps(d), tail |-> <<")", ";">>]
    ELSE [head |-> <<>>, json |-> json_dumps(d), tail |-> <<>>]

\* What one run of the handler leaves behind
Outcome(exc, msg, pg, calls, results, body) ==
    [exc |-> exc, msg |-> msg, page |-> pg, calls |-> calls,
     search_results |-> results, response |-> body]

\* Variant: only a missing q key counts as "no query"
QueryMissing_KeyOnly(kw) == "q" \notin DOMAIN kw

\* q = kwd.get( 'q', '' ); not q
QueryMissing(kw) == ~NonEmpty(Get(kw, "q", <<>>))

\* ToolsController.index( trans, **kwd )
index(kw, cf, eng, return_jsonp, callback) ==
    LET q == Get(kw, "q", <<>>)
    IN  IF QueryMissing(kw)
        THEN Outcome("NotImplemented", MsgNoListing, <<>>, <<>>, <<>>, <<>>)
        ELSE IF "page" \in DOMAIN kw /\ IntRaises(kw["page"])
        THEN Outcome("RequestParameterInvalidException", MsgBadPage, <<>>, <<>>, <<>>, <<>>)
        ELSE LET pg == IF "page" \in DOMAIN kw THEN int(kw["page"]) ELSE DefaultPage
                 s  == _search(q, pg, cf, eng)
             IN  IF s.exc # ""
                 THEN Outcome(s.exc, s.msg, <<pg>>, s.calls, <<>>, <<>>)
                 ELSE Outcome("", "", <<pg>>, s.calls, s.results,
                              <<Body(s.results[1], return_jsonp, callback)>>)

(* --------------------------- the state machine ------------------------ *)

NoRequest == <<>>

NoOutcome == [ok |-> FALSE, results |-> NoResults, exc |-> ""]

Init ==
    /\ conf \in Configs
    /\ kwd = NoRequest
    /\ pc = "idle"
    /\ page = <<>>
    /\ search_results = <<>>
    /\ response = <<>>
    /\ raised = [kind |-> "", msg |-> ""]
    /\ engine_calls = <<>>
    /\ engine_outcome = NoOutcome

\* Whether the handler, on this request, gets as far as the engine
ReachesEngine(kw, cf) ==
    LET probe == CHOOSE e \in EngineOutcomes : ~e.ok
    IN  index(kw, cf, probe, FALSE, "callback").calls # <<>>

\* GET /api/tools arrives with its keyword arguments and the handler runs
\* from its first line to its return or its exception.  The engine's
\* behaviour and the jsonp flags are drawn where the handler uses them.
HandleIndex ==
    /\ pc = "idle"
    /\ \E kw \in Requests :
       \E eng \in (IF ReachesEngine(kw, conf) THEN EngineOutcomes ELSE {NoOutcome}) :
       \E return_jsonp \in (IF eng.ok THEN BOOLEAN ELSE {FALSE}) :
       \E callback \in (IF return_jsonp THEN Callbacks ELSE {"callback"}) :
          LET o == index(kw, conf, eng, return_jsonp, callback)
          IN  /\ kwd' = kw
              /\ page' = o.page
              /\ search_results' = o.search_results
              /\ response' = o.response
              /\ raised' = [kind |-> o.exc, msg |-> o.msg]
              /\ engine_calls' = o.calls
              /\ engine_outcome' = eng
    /\ pc' = "responded"
    /\ UNCHANGED conf

\* The response (or the error) has gone to the caller; nothing is kept
Reply ==
    /\ pc = "responded"
    /\ pc' = "idle"
    /\ kwd' = NoRequest
    /\ page' = <<>>
    /\ search_results' = <<>>
    /\ response' = <<>>
    /\ raised' = [kind |-> "", msg |-> ""]
    /\ engine_calls' = <<>>
    /\ engine_outcome' = NoOutcome
    /\ UNCHANGED conf

Next == HandleIndex \/ Reply

Spec == Init /\ [][Next]_vars

TypeOK ==
    /\ pc \in {"idle", "responded"}
    /\ conf \in Configs
    /\ Len(engine_calls) \in {0, 1}

(* ----------------------- vocabulary of the properties ------------------ *)

\* The handler has run on the request in kwd
Done == pc = "responded"

\* The query string of the request ('' when q is absent)
Q == IF "q" \in DOMAIN kwd THEN kwd["q"] ELSE <<>>

NonBlankPositions(s) == {i \in 1..Len(s) : s[i] \notin Whitespace}

First(S) == CHOOSE i \in S : \A j \in S : i <= j

Last(S) == CHOOSE i \in S : \A j \in S : j <= i

\* The string between the first and the last non-blank character of s
Trimmed(s) ==
    IF NonBlankPositions(s) = {} THEN <<>>
    ELSE SubSeq(s, First(NonBlankPositions(s)), Last(NonBlankPositions(s)))

TrimmedLen(s) == Len(Trimmed(s))

Blanks(n) == [i \in 1..n |-> " "]

Zeros(n) == [i \in 1..n |-> "0"]

DigitChar == <<"0", "1", "2", "3", "4", "5", "6", "7", "8", "9">>

\* The decimal numeral of a natural number
RECURSIVE Numeral(_)
Numeral(m) ==
    IF m < 10 THEN <<DigitChar[m + 1]>>
    ELSE Numeral(m \div 10) \o <<DigitChar[(m % 10) + 1]>>

\* s is written as: blanks, an optional sign, one or more digits, blanks
IsIntegerString(s) ==
    LET t == Trimmed(s)
        d == IF t # <<>> /\ t[1] \in {"-", "+"} THEN SubSeq(t, 2, Len(t)) ELSE t
    IN  /\ Len(d) >= 1
        /\ \A i \in 1..Len(d) : d[i] \in {"0", "1", "2", "3", "4", "5", "6", "7", "8", "9"}

\* s is a way of writing the integer n: blanks, the sign of n (a "+" or
\* nothing when n is not negative), zeros, the numeral of |n|, blanks
Denotes(s, n) ==
    LET t      == Trimmed(s)
        signed == t # <<>> /\ t[1] \in {"-", "+"}
        minus  == t # <<>> /\ t[1] = "-"
        d      == IF signed THEN SubSeq(t, 2, Len(t)) ELSE t
        m      == IF n < 0 THEN 0 - n ELSE n
    IN  /\ n < 0 => minus
        /\ n > 0 => ~minus
        /\ \E z \in 0..Len(d) : d = Zeros(z) \o Numeral(m)

PagePresent == "page" \in DOMAIN kwd

\* The request's page is absent or is an integer string
PageValid == ~PagePresent \/ IsIntegerString(kwd["page"])

SearchOn == conf.toolshed_search_on

IndexDirConfigured == conf.whoosh_index_dir # None /\ conf.whoosh_index_dir # ""

BoostsNumeric == \A k \in BoostKeys : conf.settings[k] \in {Unset, "0", "2.5"}

ValidationKinds == {"NotImplemented", "RequestParameterInvalidException"}

\* The request gets past index's own checks, so that _search is called
SearchEntered == Len(Q) > 0 /\ PageValid

(* ------------------------------- C1 ----------------------------------- *)

\* C1 as stated: every empty or whitespace-only query fails with
\* NotImplemented, whatever the page and the configuration.
C1_AsStated ==
    (Done /\ TrimmedLen(Q) = 0) => raised.kind = "NotImplemented"

\* C1 (amended): every request whose query string is empty (absent or '')
\* fails with NotImplemented and the "listing is not implemented" message,
\* whatever the page value and the configuration are.
C1_EmptyQueryNotImplemented ==
    (Done /\ Len(Q) = 0) =>
        /\ raised.kind = "NotImplemented"
        /\ raised.msg = MsgNoListing
        /\ engine_calls = <<>>

C1_Witness ==
    /\ Done
    /\ "q" \in DOMAIN kwd /\ Len(Q) = 0
    /\ PagePresent /\ ~PageValid
    /\ ~SearchOn
    /\ raised.kind = "NotImplemented"

(* ------------------------------- C2 ----------------------------------- *)

C3_PageParsing ==
    (Done /\ Len(Q) > 0) =>
        /\ ~PagePresent => page = <<1>>
        /\ (PagePresent /\ ~IsIntegerString(kwd["page"])) =>
              /\ raised.kind = "RequestParameterInvalidException"
              /\ raised.msg = MsgBadPage
              /\ page = <<>>
        /\ (PagePresent /\ IsIntegerString(kwd["page"])) =>
              /\ Len(page) = 1
              /\ Denotes(kwd["page"], page[1])
              /\ raised.msg # MsgBadPage

C3_Witness ==
    /\ Done
    /\ Len(Q) > 0
    /\ PagePresent
    /\ kwd["page"] = <<"-", "1">>
    /\ page = <<0 - 1>>

(* ------------------------------- C4 ----------------------------------- *)

\* C4: with search disabled, every call of _search fails with the
\* "search is turned off" ConfigDoesNotAllowException, whatever the query
\* (trimmed length under 3 included) and whether or not an index directory
\* is configured; and no request at all reaches the engine.
C4_SearchDisabled ==
    (Done /\ ~SearchOn) =>
        /\ engine_calls = <<>>
        /\ SearchEntered =>
              /\ raised.kind = "ConfigDoesNotAllowException"
              /\ raised.msg = MsgSearchOff

C4_Witness ==
    /\ Done
    /\ ~SearchOn
    /\ IndexDirConfigured
    /\ SearchEntered
    /\ TrimmedLen(Q) = 1
    /\ raised.msg = MsgSearchOff

(* ------------------------------- C5 ----------------------------------- *)

\* What the same request raises once search is switched off
KindWhenDisabled ==
    index(kwd, [conf EXCEPT !.toolshed_search_on = FALSE],
          engine_outcome, FALSE, "callback").exc

MsgWhenDisabled ==
    index(kwd, [conf EXCEPT !.toolshed_search_on = FALSE],
          engine_outcome, FALSE, "callback").msg

\* C5 as stated: with search enabled and no index directory, the error kind
\* differs from the kind raised when search is disabled.
C5_AsStated ==
    (Done /\ SearchEntered /\ SearchOn /\ ~IndexDirConfigured) =>
        /\ raised.kind # ""
        /\ raised.kind # KindWhenDisabled

\* C5 (amended): with search enabled and no index directory, search fails
\* with ConfigDoesNotAllowException, the same kind as when search is
\* disabled; the two cases differ in their message only.
C5_MissingIndexDir ==
    (Done /\ SearchEntered /\ SearchOn /\ ~IndexDirConfigured) =>
        /\ raised.kind = "ConfigDoesNotAllowException"
        /\ raised.kind = KindWhenDisabled
        /\ raised.msg = MsgNoIndexDir
        /\ raised.msg # MsgWhenDisabled
        /\ engine_calls = <<>>

C5_Witness ==
    /\ Done
    /\ SearchEntered /\ SearchOn
    /\ conf.whoosh_index_dir = ""
    /\ TrimmedLen(Q) >= 3
    /\ raised.msg = MsgNoIndexDir

(* ------------------------------- C6 ----------------------------------- *)

\* Some validation or configuration check rejects the request
Rejected ==
    \/ Len(Q) = 0
    \/ ~PageValid
    \/ ~SearchOn
    \/ ~IndexDirConfigured
    \/ TrimmedLen(Q) < 3

\* C6: a request rejected by validation or by a configuration precondition
\* (empty query, non-integer page, search disabled, index directory
\* missing, too-short query) fails with the engine never called.
C6_RejectedBeforeEngine ==
    (Done /\ Rejected) =>
        /\ raised.kind \in ValidationKinds \cup {"ConfigDoesNotAllowException"}
        /\ engine_calls = <<>>
        /\ response = <<>>

C6_Witness ==
    /\ Done
    /\ SearchEntered /\ SearchOn /\ IndexDirConfigured /\ BoostsNumeric
    /\ Len(Q) = 4 /\ TrimmedLen(Q) = 2
    /\ raised.msg = MsgShortTerm
    /\ engine_calls = <<>>

(* ------------------------------- C7 ----------------------------------- *)

\* The engine was called and returned a result set
EngineSucceeded == Done /\ Len(engine_calls) = 1 /\ engine_outcome.ok

\* C7: when the engine call succeeds, the result set handed back is the
\* engine's: the same hits in the same order, and the engine's page and
\* total_results; the response body carries those same values.
C7_ResultsPassThrough ==
    EngineSucceeded =>
        /\ raised.kind = ""
        /\ Len(search_results) = 1
        /\ search_results[1].hits = engine_outcome.results.hits
        /\ search_results[1].page = engine_outcome.results.page
        /\ search_results[1].total_results = engine_outcome.results.total_results
        /\ Len(response) = 1
        /\ response[1].json[1] = <<"hits", engine_outcome.results.hits>>
        /\ response[1].json[3] = <<"page", engine_outcome.results.page>>
        /\ response[1].json[4] = <<"total_results", engine_outcome.results.total_results>>

C7_Witness ==
    /\ EngineSucceeded
    /\ engine_outcome.results.hits = <<HitA, HitB>>
    /\ engine_outcome.results.page = 7
    /\ page = <<1>>
    /\ engine_outcome.results.total_results = 40
    /\ search_results[1].hits = <<HitA, HitB>>

(* ------------------------------- C8 ----------------------------------- *)

\* The engine was called and raised
EngineFailed == Done /\ Len(engine_calls) >= 1 /\ ~engine_outcome.ok

\* C8 as stated: an engine failure is not retried and reaches the caller
\* wrapped as a SearchEngineError.
C8_AsStated ==
    EngineFailed =>
        /\ Len(engine_calls) = 1
        /\ raised.kind = "SearchEngineError"
        /\ response = <<>>

\* C8 (amended): an engine failure is not retried (the engine is called at
\* most once per request) and the engine's own exception reaches the caller
\* unwrapped; it is never swallowed or turned into a successful response.
C8_EngineFailurePropagates ==
    /\ Len(engine_calls) <= 1
    /\ EngineFailed =>
          /\ raised.kind = engine_outcome.exc
          /\ raised.kind # ""
          /\ response = <<>>
          /\ search_results = <<>>

C8_Witness ==
    /\ EngineFailed
    /\ engine_outcome.exc = "IOError"
    /\ raised.kind = "IOError"
    /\ Len(engine_calls) = 1

(* ------------------------------- C9 ----------------------------------- *)

\* The boost a setting stands for, in tenths
ExpectedBoost(k) ==
    CASE conf.settings[k] = "2.5" -> 25
      [] conf.settings[k] = "0"   -> 0
      [] conf.settings[k] = Unset /\ k = "tool_name_boost" -> 12
      [] conf.settings[k] = Unset /\ k = "tool_description_boost" -> 6
      [] conf.settings[k] = Unset /\ k = "tool_help_boost" -> 4
      [] conf.settings[k] = Unset /\ k = "tool_repo_owner_username_boost" -> 3

\* C9: whenever the engine is called, it is given the query without its
\* leading and trailing whitespace, the integer the page denotes (1 when
\* absent; zero and negative values unchanged), and for each boost the
\* configured value or, when unset, the default 1.2 / 0.6 / 0.4 / 0.3.
C9_EngineArguments ==
    (Done /\ engine_calls # <<>>) =>
        /\ engine_calls[1].search_term = Trimmed(Q)
        /\ PagePresent => Denotes(kwd["page"], engine_calls[1].page)
        /\ ~PagePresent => engine_calls[1].page = 1
        /\ DOMAIN engine_calls[1].boosts = BoostKeys
        /\ \A k \in BoostKeys : engine_calls[1].boosts[k] = ExpectedBoost(k)

C9_Witness ==
    /\ Done
    /\ Q = <<"a", "a", "a", " ">>
    /\ PagePresent /\ kwd["page"] = <<"-", "1">>
    /\ \A k \in BoostKeys : conf.settings[k] = Unset
    /\ Len(engine_calls) = 1
    /\ engine_calls[1].search_term = <<"a", "a", "a">>
    /\ engine_calls[1].page = 0 - 1
    /\ engine_calls[1].boosts["tool_name_boost"] = 12
    /\ engine_calls[1].boosts["tool_description_boost"] = 6
    /\ engine_calls[1].boosts["tool_help_boost"] = 4
    /\ engine_calls[1].boosts["tool_repo_owner_username_boost"] = 3

(* ------------------------------- C10 ---------------------------------- *)

\* C10: one error is reported per request, the first in this order: empty
\* query (NotImplemented), non-integer page (invalid parameter), search
\* disabled, index directory missing, trimmed query shorter than 3
\* (invalid parameter).
C10_Precedence ==
    Done =>
        IF Len(Q) = 0
        THEN raised = [kind |-> "NotImplemented", msg |-> MsgNoListing]
        ELSE IF ~PageValid
        THEN raised = [kind |-> "RequestParameterInvalidException", msg |-> MsgBadPage]
        ELSE IF ~SearchOn
        THEN raised = [kind |-> "ConfigDoesNotAllowException", msg |-> MsgSearchOff]
        ELSE IF ~IndexDirConfigured
        THEN raised = [kind |-> "ConfigDoesNotAllowException", msg |-> MsgNoIndexDir]
        ELSE IF TrimmedLen(Q) < 3
        THEN raised = [kind |-> "RequestParameterInvalidException", msg |-> MsgShortTerm]
        ELSE raised.kind \notin ValidationKinds \cup {"ConfigDoesNotAllowException"}

C10_Witness ==
    /\ Done
    /\ SearchEntered
    /\ ~SearchOn /\ ~IndexDirConfigured /\ TrimmedLen(Q) < 3
    /\ raised.msg = MsgSearchOff

====
